---- MODULE Spec2Model ----
(***************************************************************************)
(* Mini Palantir Gotham: the ingestion pipeline (backend/nyc_ingest.py),   *)
(* the session provider (backend/db.py) and the query API                  *)
(* (backend/main.py), as state machines over the crime_events and          *)
(* boroughs tables.                                                        *)
(***************************************************************************)
EXTENDS Integers, Sequences, FiniteSets, TLC

(***************************************************************************)
(* Bounds of the model.                                                    *)
(***************************************************************************)
\* rows of arbitrary kind at the start of a CSV
MaxHead == 2
\* prior crime_events rows before a run (0..MaxPrior of them)
MaxPrior == 1
\* database operations that may raise during one ingestion run
MaxDbFaults == 1
\* calls of initialize_boroughs in a row
MaxSeedRuns == 2
\* rows of crime_events when the API reads it
MaxApiRows == 2
\* requests in flight at once
MaxRequests == 2
\* the ids asked of GET /crimes/{id}: 0..MaxCrimeId
MaxCrimeId == 2
\* the skip values asked of GET /crimes: 0..MaxSkip
MaxSkip == 1
\* the totals pagination is computed for: 0..MaxTotal
MaxTotal == 12

(***************************************************************************)
(* Program constants.                                                      *)
(***************************************************************************)
\* nyc_ingest.py:215  "if successful_inserts % 100 == 0"
BatchSize == 100
\* nyc_ingest.py:88   "for i in range(1000)"
SampleSize == 1000
\* main.py:91   limit: Query(100, ge=1, le=1000)
MinLimit == 1
MaxLimit == 1000
\* main.py:257  days: Query(30, ge=1, le=365)
MinDays == 1
MaxDays == 365
\* main.py:198  timedelta(days=30)
RecentDays == 30

\* rows of arbitrary kind at the end of a CSV: enough to pass a batch
\* boundary and to process a row after it
MaxTail == MaxHead + 1
\* the well-formed rows between the head and the tail of a long CSV, so that
\* successful_inserts reaches BatchSize inside the tail
GoodRun == BatchSize - MaxHead

VARIABLES
    \* ---- storage ----
    crime_events,        \* committed rows of the crime_events table
    \* ---- ingest_csv_data ----
    pc,                  \* position in ingest_csv_data
    csv_file,            \* what is at csv_path: "missing", "corrupt", "readable"
    df,                  \* the loaded DataFrame: its source and shape
    pending,             \* rows added to the session and not yet committed
    idx,                 \* rows of df iterated so far
    successful_inserts,
    failed_inserts,
    result,              \* return value: "none", "True", "False"
    log,                 \* set of messages logged
    db_faults,           \* database operations that raised so far
    last_event,          \* what the latest step did (history)
    odd_rows,            \* the rows read so far that are not plain rows (history)
    prior,               \* crime_events before the call (history)
    \* ---- initialize_boroughs ----
    boroughs,            \* committed rows of the boroughs table
    b_pc,                \* position in initialize_boroughs
    b_pending,           \* Borough objects added and not yet committed
    b_i,                 \* entries of boroughs_data iterated so far
    b_runs,              \* calls that have returned
    b_faults,            \* database operations that raised so far
    b_first,             \* boroughs when the first call returned (history)
    b_prior,             \* boroughs when the latest call started (history)
    \* ---- the API process ----
    req,                 \* the requests: position, session, exit path, response,
                         \* whether the query raised (history)
    open_sessions,       \* sessions created by SessionLocal() and not closed
    sessions_created,    \* number of SessionLocal() calls so far
    api_faults,          \* queries that raised so far
    clock,               \* datetime.utcnow(), in half days
    resp,                \* the latest response of a list/aggregate endpoint
    \* ---- a reader running beside ingest_csv_data ----
    observed             \* what a concurrent request read: None, or Some of
                         \* the rows and the position of the ingestion then

ingest_vars == <<pc, csv_file, df, pending, idx, successful_inserts,
                 failed_inserts, result, log, db_faults, last_event,
                 odd_rows, prior>>

borough_vars == <<boroughs, b_pc, b_pending, b_i, b_runs, b_faults, b_first,
                  b_prior>>

api_vars == <<req, open_sessions, sessions_created, api_faults, clock, resp>>

vars == <<crime_events, ingest_vars, borough_vars, api_vars, observed>>

other_than_ingest == <<borough_vars, api_vars, observed>>
other_than_boroughs == <<crime_events, ingest_vars, api_vars, observed>>
other_than_api == <<crime_events, ingest_vars, borough_vars, observed>>

(***************************************************************************)
(* Rows.  A CSV row is identified by its position; what matters of it is   *)
(* its complaint_number and whether CrimeEvent(...) can be built from it   *)
(* (int(), float() and pd.to_datetime() raise on bad text).                *)
(***************************************************************************)
PlainRow(i) == [index |-> i, complaint_number |-> i, constructs |-> TRUE]

\* the complaint_number a duplicating row repeats: that of the first row
DupNumber == PlainRow(1).complaint_number

\* rows the table may hold before a run: complaint numbers of another feed
PriorRow(k) == [index |-> 0 - k, complaint_number |-> 0 - k]

PriorTables == {{PriorRow(k) : k \in 1..n} : n \in 0..MaxPrior}

\* the kinds of row a CSV can hold at position i
CsvRowKinds(i) ==
    {PlainRow(i),
     [index |-> i, complaint_number |-> i, constructs |-> FALSE]}
    \cup (IF i > 1
          THEN {[index |-> i, complaint_number |-> DupNumber, constructs |-> TRUE]}
          ELSE {})

\* DataFrames: a head of arbitrary rows, an optional run of plain rows, a
\* tail of arbitrary rows
CsvShapes ==
    {[source |-> "csv", head |-> h, run |-> g, tail |-> t] :
        h \in 0..MaxHead, g \in {0, GoodRun}, t \in 0..MaxTail}

\* create_sample_data: SampleSize rows, complaint numbers 2024000001...,
\* every field of the right type
SampleShape == [source |-> "sample", head |-> 0, run |-> SampleSize, tail |-> 0]

\* no DataFrame loaded
NoFrame == [source |-> "none", head |-> 0, run |-> 0, tail |-> 0]

Len_df == df.head + df.run + df.tail

\* the rows df can hold at position i
RowsAt(i) ==
    IF i > df.head /\ i <= df.head + df.run THEN {PlainRow(i)} ELSE CsvRowKinds(i)

\* the CrimeEvent built from a row
CrimeEventOf(row) == [index |-> row.index, complaint_number |-> row.complaint_number]

(***************************************************************************)
(* The session.                                                            *)
(***************************************************************************)
Numbers(rows) == {r.complaint_number : r \in rows}

\* the flush of a commit: rejected (IntegrityError) when complaint_number,
\* a unique column, would repeat
FlushRejected(rows, table) ==
    \/ Cardinality(Numbers(rows)) # Cardinality(rows)
    \/ Numbers(rows) \cap Numbers(table) # {}

\* session.rollback(): every pending object of the transaction is expunged
Rollback(rows) == {}

\* the outcomes of session.commit(): "ok", "integrity", "dberror"
CommitOutcomes(rows, table) ==
    (IF FlushRejected(rows, table) THEN {"integrity"} ELSE {"ok"})
    \cup (IF db_faults < MaxDbFaults THEN {"dberror"} ELSE {})

(***************************************************************************)
(* ingest_csv_data                                                         *)
(***************************************************************************)
IngestInit ==
    /\ pc = "read_csv"
    /\ csv_file \in {"missing", "corrupt", "readable"}
    /\ df = NoFrame
    /\ pending = {}
    /\ idx = 0
    /\ successful_inserts = 0
    /\ failed_inserts = 0
    /\ result = "none"
    /\ log = {}
    /\ db_faults = 0
    /\ last_event = "none"
    /\ odd_rows = {}
    /\ prior = crime_events

\* ReadCsv with the read error handled like the missing file
ReadCsvFallbackOnError ==
    /\ UNCHANGED other_than_ingest
    /\ pc = "read_csv"
    /\ \/ /\ csv_file \in {"missing", "corrupt"}
          /\ log' = log \cup {"CSV file not found", "Creating sample data"}
          /\ df' = SampleShape
       \/ /\ csv_file = "readable"
          /\ \E s \in CsvShapes : df' = s
          /\ log' = log \cup {"Loaded records from CSV"}
    /\ pc' = "clear"
    /\ last_event' = "read_csv"
    /\ UNCHANGED <<crime_events, csv_file, pending, idx, successful_inserts,
                   failed_inserts, result, db_faults, odd_rows, prior>>

\* lines 155-168: the file check and pd.read_csv
ReadCsv ==
    /\ UNCHANGED other_than_ingest
    /\ pc = "read_csv"
    /\ \/ /\ csv_file = "missing"
          /\ log' = log \cup {"CSV file not found", "Creating sample data"}
          /\ df' = SampleShape
          /\ pc' = "clear"
          /\ UNCHANGED result
       \/ /\ csv_file = "readable"
          /\ \E s \in CsvShapes : df' = s
          /\ log' = log \cup {"Loaded records from CSV"}
          /\ pc' = "clear"
          /\ UNCHANGED result
       \/ /\ csv_file = "corrupt"
          /\ log' = log \cup {"Error reading CSV file"}
          /\ result' = "False"
          /\ pc' = "done"
          /\ UNCHANGED df
    /\ last_event' = "read_csv"
    /\ UNCHANGED <<crime_events, csv_file, pending, idx, successful_inserts,
                   failed_inserts, db_faults, odd_rows, prior>>

\* lines 233-239: the outer handler
Abort(logged) ==
    /\ log' = logged \cup {"Error during data ingestion"}
    /\ pending' = Rollback(pending)
    /\ result' = "False"
    /\ pc' = "done"

\* the delete left uncommitted, in the transaction of the first inserts
ClearTableUncommitted ==
    /\ UNCHANGED other_than_ingest
    /\ pc = "clear"
    /\ \/ /\ UNCHANGED crime_events
          /\ pc' = "loop"
          /\ last_event' = "cleared"
          /\ log' = log \cup {"Clearing existing crime data"}
          /\ UNCHANGED <<pending, result, db_faults>>
       \/ /\ db_faults < MaxDbFaults
          /\ db_faults' = db_faults + 1
          /\ Abort(log \cup {"Clearing existing crime data"})
          /\ last_event' = "clear_failed"
          /\ UNCHANGED crime_events
    /\ UNCHANGED <<csv_file, df, idx, successful_inserts, failed_inserts,
                   odd_rows, prior>>

\* the delete taking effect although the statement or its commit raises
ClearTableAutocommit ==
    /\ UNCHANGED other_than_ingest
    /\ pc = "clear"
    /\ \/ /\ crime_events' = {}
          /\ pc' = "loop"
          /\ last_event' = "cleared"
          /\ log' = log \cup {"Clearing existing crime data"}
          /\ UNCHANGED <<pending, result, db_faults>>
       \/ /\ db_faults < MaxDbFaults
          /\ db_faults' = db_faults + 1
          /\ Abort(log \cup {"Clearing existing crime data"})
          /\ last_event' = "clear_failed"
          /\ crime_events' = {}
    /\ UNCHANGED <<csv_file, df, idx, successful_inserts, failed_inserts,
                   odd_rows, prior>>

\* lines 174-181: delete every row, commit, zero the counters
ClearTable ==
    /\ UNCHANGED other_than_ingest
    /\ pc = "clear"
    /\ \/ /\ crime_events' = {}
          /\ pc' = "loop"
          /\ last_event' = "cleared"
          /\ log' = log \cup {"Clearing existing crime data"}
          /\ UNCHANGED <<pending, result, db_faults>>
       \/ /\ db_faults < MaxDbFaults
          /\ db_faults' = db_faults + 1
          /\ Abort(log \cup {"Clearing existing crime data"})
          /\ last_event' = "clear_failed"
          /\ UNCHANGED crime_events
    /\ UNCHANGED <<csv_file, df, idx, successful_inserts, failed_inserts,
                   odd_rows, prior>>

\* a commit every second batch only
CommitDueEveryOtherBatch(n) == n % (2 * BatchSize) = 0

\* line 215: successful_inserts % 100 == 0
CommitDue(n) == n % BatchSize = 0

\* lines 219-222: the handler of the row loop
RowFailed ==
    /\ failed_inserts' = failed_inserts + 1
    /\ pending' = Rollback(pending)
    /\ log' = log \cup {"Failed to insert row"}

\* lines 183-222: one iteration of the row loop
ProcessRow ==
    /\ UNCHANGED other_than_ingest
    /\ pc = "loop"
    /\ idx < Len_df
    /\ \E row \in RowsAt(idx + 1) :
        /\ idx' = idx + 1
        /\ odd_rows' = IF row = PlainRow(idx + 1) THEN odd_rows
                                                 ELSE odd_rows \cup {row}
        /\ IF ~row.constructs
           THEN \* CrimeEvent(...) raises
                /\ RowFailed
                /\ last_event' = "row_failed"
                /\ UNCHANGED <<crime_events, successful_inserts, db_faults>>
           ELSE LET added == pending \cup {CrimeEventOf(row)} IN
                /\ successful_inserts' = successful_inserts + 1
                /\ IF ~CommitDue(successful_inserts + 1)
                   THEN /\ pending' = added
                        /\ last_event' = "row_added"
                        /\ UNCHANGED <<crime_events, failed_inserts, log,
                                       db_faults>>
                   ELSE \E outcome \in CommitOutcomes(added, crime_events) :
                        \/ /\ outcome = "ok"
                           /\ crime_events' = crime_events \cup added
                           /\ pending' = {}
                           /\ log' = log \cup {"Processed records"}
                           /\ last_event' = "batch_committed"
                           /\ UNCHANGED <<failed_inserts, db_faults>>
                        \/ /\ outcome = "integrity"
                           /\ RowFailed
                           /\ last_event' = "batch_rejected"
                           /\ UNCHANGED <<crime_events, db_faults>>
                        \/ /\ outcome = "dberror"
                           /\ db_faults' = db_faults + 1
                           /\ RowFailed
                           /\ last_event' = "batch_dberror"
                           /\ UNCHANGED crime_events
    /\ UNCHANGED <<pc, csv_file, df, result, prior>>

\* lines 224-231: the commit after the loop
FinalCommit ==
    /\ UNCHANGED other_than_ingest
    /\ pc = "loop"
    /\ idx = Len_df
    /\ \E outcome \in CommitOutcomes(pending, crime_events) :
        \/ /\ outcome = "ok"
           /\ crime_events' = crime_events \cup pending
           /\ pending' = {}
           /\ log' = log \cup {"Data ingestion completed"}
           /\ result' = "True"
           /\ pc' = "done"
           /\ last_event' = "final_committed"
           /\ UNCHANGED db_faults
        \/ /\ outcome = "integrity"
           /\ Abort(log)
           /\ last_event' = "final_rejected"
           /\ UNCHANGED <<crime_events, db_faults>>
        \/ /\ outcome = "dberror"
           /\ db_faults' = db_faults + 1
           /\ Abort(log)
           /\ last_event' = "final_dberror"
           /\ UNCHANGED crime_events
    /\ UNCHANGED <<csv_file, df, idx, successful_inserts, failed_inserts,
                   odd_rows, prior>>

(***************************************************************************)
(* initialize_boroughs                                                     *)
(***************************************************************************)
\* lines 248-294: boroughs_data (areas and bounds in hundredths)
boroughs_data == <<
    [name |-> "MANHATTAN", population |-> 1694251, area_sq_miles |-> 2283,
     north_bound |-> 4088, south_bound |-> 4070,
     east_bound |-> -7391, west_bound |-> -7402],
    [name |-> "BROOKLYN", population |-> 2736074, area_sq_miles |-> 6950,
     north_bound |-> 4074, south_bound |-> 4057,
     east_bound |-> -7384, west_bound |-> -7406],
    [name |-> "QUEENS", population |-> 2405464, area_sq_miles |-> 10853,
     north_bound |-> 4080, south_bound |-> 4054,
     east_bound |-> -7370, west_bound |-> -7396],
    [name |-> "BRONX", population |-> 1472654, area_sq_miles |-> 4200,
     north_bound |-> 4092, south_bound |-> 4079,
     east_bound |-> -7376, west_bound |-> -7393],
    [name |-> "STATEN ISLAND", population |-> 495747, area_sq_miles |-> 5750,
     north_bound |-> 4065, south_bound |-> 4047,
     east_bound |-> -7405, west_bound |-> -7426] >>

\* rows the boroughs table may hold before a call: seed rows with an outdated
\* population or bound, a current seed row, a row that is no seed row
PriorBoroughPool ==
    {[boroughs_data[1] EXCEPT !.population = 1600000],
     boroughs_data[2],
     [boroughs_data[3] EXCEPT !.name = "NASSAU"],
     [boroughs_data[5] EXCEPT !.west_bound = -7430]}

Names(rows) == {r.name : r \in rows}

\* the flush of a commit: rejected when name, a unique column, would repeat
BoroughFlushRejected(rows, table) ==
    \/ Cardinality(Names(rows)) # Cardinality(rows)
    \/ Names(rows) \cap Names(table) # {}

BoroughInit ==
    /\ boroughs \in SUBSET PriorBoroughPool
    /\ b_pc = "idle"
    /\ b_pending = {}
    /\ b_i = 0
    /\ b_runs = 0
    /\ b_faults = 0
    /\ b_first = {}
    /\ b_prior = boroughs

\* initialize_boroughs returns (lines 315-316)
SeedReturn ==
    /\ b_pc' = "idle"
    /\ b_i' = 0
    /\ b_runs' = b_runs + 1
    /\ b_first' = IF b_runs = 0 THEN boroughs' ELSE b_first

\* lines 311-313: the handler
SeedFailed ==
    /\ b_pending' = Rollback(b_pending)
    /\ UNCHANGED boroughs
    /\ SeedReturn

\* a delete that leaves the rows in place
DeleteNothing(table) == table

\* the rows left by "session.query(Borough).delete()"
DeleteAll(table) == {}

\* lines 296-301: a call starts: delete every row, commit
SeedClear ==
    /\ UNCHANGED other_than_boroughs
    /\ b_pc = "idle"
    /\ b_runs < MaxSeedRuns
    /\ b_prior' = boroughs
    /\ \/ /\ boroughs' = DeleteAll(boroughs)
          /\ b_pc' = "insert"
          /\ UNCHANGED <<b_pending, b_i, b_runs, b_faults, b_first>>
       \/ /\ b_faults < MaxDbFaults
          /\ b_faults' = b_faults + 1
          /\ SeedFailed

\* a commit after every row of the loop
SeedAddCommitEach ==
    /\ UNCHANGED other_than_boroughs
    /\ b_pc = "insert"
    /\ b_i < Len(boroughs_data)
    /\ \/ /\ b_i' = b_i + 1
          /\ boroughs' = boroughs \cup {boroughs_data[b_i + 1]}
          /\ UNCHANGED <<b_pending, b_pc, b_runs, b_faults, b_first>>
       \/ /\ b_faults < MaxDbFaults
          /\ b_faults' = b_faults + 1
          /\ SeedFailed
    /\ UNCHANGED b_prior

\* lines 304-306: one iteration of the insert loop
SeedAdd ==
    /\ UNCHANGED other_than_boroughs
    /\ b_pc = "insert"
    /\ b_i < Len(boroughs_data)
    /\ b_i' = b_i + 1
    /\ b_pending' = b_pending \cup {boroughs_data[b_i + 1]}
    /\ UNCHANGED <<boroughs, b_pc, b_runs, b_faults, b_first, b_prior>>

\* lines 308-316: the commit after the loop
SeedCommit ==
    /\ UNCHANGED other_than_boroughs
    /\ b_pc = "insert"
    /\ b_i = Len(boroughs_data)
    /\ UNCHANGED b_prior
    /\ \/ /\ ~BoroughFlushRejected(b_pending, boroughs)
          /\ boroughs' = boroughs \cup b_pending
          /\ b_pending' = {}
          /\ SeedReturn
          /\ UNCHANGED b_faults
       \/ /\ BoroughFlushRejected(b_pending, boroughs)
          /\ SeedFailed
          /\ UNCHANGED b_faults
       \/ /\ b_faults < MaxDbFaults
          /\ b_faults' = b_faults + 1
          /\ SeedFailed

(***************************************************************************)
(* The rows the API reads.  Optional values are None or Some(v); a string  *)
(* is a sequence of letters; a datetime is a count of half days.           *)
(***************************************************************************)
None == <<>>
Some(v) == <<v>>

\* .isoformat() of a datetime: the text that denotes it
IsoFormat(t) == [text |-> "iso", t |-> t]

\* datetime.fromisoformat: None stands for ValueError
FromIsoFormat(s) == IF s.text = "iso" THEN Some(s.t) ELSE None

\* func.date(datetime), and timedelta(days=n)
DateOf(t) == t \div 2
Days(n) == 2 * n

\* the columns of CrimeEvent the endpoints read (models.py 20-45)
ApiRow(id, occ, offense, category, borough, lat, lng) ==
    [id |-> id, complaint_number |-> Some(<<"N", id>>),
     occurrence_date |-> occ, offense_description |-> offense,
     law_category |-> category,
     borough |-> borough, latitude |-> lat, longitude |-> lng,
     case_notes |-> None]

\* crime_events rows: coordinates inside, outside and on the edge of small
\* boxes, zero and missing coordinates; occurrences today, later today,
\* yesterday, long ago, in the future and missing; missing and empty texts
ApiRowPool ==
    {ApiRow(1, Some(10), Some(<<"R", "O", "B">>), Some(<<"F">>),
            Some(<<"B", "X">>), Some(1), Some(1)),
     ApiRow(2, Some(11), Some(<<"R", "O", "B">>), Some(<<"F">>),
            Some(<<"B", "K">>), Some(2), Some(1)),
     ApiRow(3, Some(14), Some(<<"F", "R">>), Some(<<"M">>),
            Some(<<"B", "X">>), Some(0), Some(0)),
     ApiRow(4, None, Some(<<"F", "R">>), None, None, None, None),
     ApiRow(5, Some(2), Some(<<"R", "O", "B">>), Some(<<>>),
            Some(<<"Q">>), Some(-1), Some(0)),
     ApiRow(6, Some(8), Some(<<>>), Some(<<"M">>),
            Some(<<"B", "K">>), Some(1), None)}

ApiTables == {t \in SUBSET ApiRowPool : Cardinality(t) <= MaxApiRows}

\* CrimeEvent.to_dict (models.py 78-102), for the columns modelled
to_dict(crime) ==
    [id |-> crime.id,
     complaint_number |-> crime.complaint_number,
     occurrence_date |-> IF crime.occurrence_date # None
                         THEN Some(IsoFormat(crime.occurrence_date[1]))
                         ELSE None,
     offense_description |-> crime.offense_description,
     borough |-> crime.borough,
     latitude |-> crime.latitude,
     longitude |-> crime.longitude]

(***************************************************************************)
(* get_db and the request that depends on it                               *)
(***************************************************************************)
Requests == 1..MaxRequests

CrimeIdChoices == 0..MaxCrimeId

NewRequest == [pc |-> "new", session |-> 0, exit |-> "none", crime_id |-> 0,
               query_raised |-> FALSE,
               status |-> 0, body |-> [detail |-> "none"]]

\* request times: the morning and the afternoon of a day
ClockChoices == {10, 11}

NoResponse == [endpoint |-> "none", status |-> 0]

ApiInit ==
    /\ req = [r \in Requests |-> NewRequest]
    /\ open_sessions = {}
    /\ sessions_created = 0
    /\ api_faults = 0
    /\ clock \in ClockChoices
    /\ resp = NoResponse
    /\ observed = None

\* no request under way, the clock at a fixed time
ApiIdle ==
    /\ ApiInit
    /\ clock = 10

\* db.py 51-53: db = SessionLocal(); yield db
GetDbOpen(r) ==
    /\ UNCHANGED other_than_api
    /\ req[r].pc = "new"
    /\ sessions_created' = sessions_created + 1
    /\ open_sessions' = open_sessions \cup {sessions_created + 1}
    /\ req' = [req EXCEPT ![r].pc = "handler",
                          ![r].session = sessions_created + 1]
    /\ UNCHANGED <<api_faults, clock, resp>>

\* .filter(CrimeEvent.id == crime_id).first()
FirstById(table, crime_id) ==
    LET found == {row \in table : row.id = crime_id} IN
    IF found = {} THEN None ELSE Some(CHOOSE row \in found : TRUE)

\* an answer that serializes the missing row instead of raising 404
CrimeByIdAnswerNoCheck(crime) ==
    IF crime = None
    THEN [exit |-> "exception", status |-> 500,
          body |-> [detail |-> "Internal Server Error"]]
    ELSE [exit |-> "return", status |-> 200, body |-> to_dict(crime[1])]

\* main.py 170-175: what get_crime_by_id answers once the query has run
CrimeByIdAnswer(crime) ==
    IF crime = None
    THEN [exit |-> "http_exception", status |-> 404,
          body |-> [detail |-> "Crime not found"]]
    ELSE [exit |-> "return", status |-> 200, body |-> to_dict(crime[1])]

\* main.py 167-175: get_crime_by_id; a query that raises is not caught here
\* and leaves the handler as an exception (the framework answers 500)
GetCrimeById(r) ==
    /\ UNCHANGED other_than_api
    /\ req[r].pc = "handler"
    /\ \E crime_id \in CrimeIdChoices :
        \/ /\ LET a == CrimeByIdAnswer(FirstById(crime_events, crime_id)) IN
              req' = [req EXCEPT ![r].pc = "exit",
                                 ![r].crime_id = crime_id,
                                 ![r].exit = a.exit,
                                 ![r].status = a.status,
                                 ![r].body = a.body]
           /\ UNCHANGED api_faults
        \/ /\ api_faults < MaxDbFaults
           /\ api_faults' = api_faults + 1
           /\ req' = [req EXCEPT ![r].pc = "exit",
                                 ![r].crime_id = crime_id,
                                 ![r].query_raised = TRUE,
                                 ![r].exit = "exception",
                                 ![r].status = 500,
                                 ![r].body = [detail |-> "Internal Server Error"]]
    /\ UNCHANGED <<open_sessions, sessions_created, clock, resp>>

\* a close that runs only after a normal return (no "finally")
CloseOnReturnOnly(exit, session, open) ==
    IF exit = "return" THEN open \ {session} ELSE open

\* db.py 54-55: "finally: db.close()", whatever the exit path
CloseOnExit(exit, session, open) == open \ {session}

\* db.py 52-55: the generator is resumed when the request ends
GetDbClose(r) ==
    /\ UNCHANGED other_than_api
    /\ req[r].pc = "exit"
    /\ open_sessions' = CloseOnExit(req[r].exit, req[r].session, open_sessions)
    /\ req' = [req EXCEPT ![r].pc = "done"]
    /\ UNCHANGED <<sessions_created, api_faults, clock, resp>>

(***************************************************************************)
(* GET /crimes                                                             *)
(***************************************************************************)
\* Python truthiness of an Optional[float] and of an Optional[str]
NumTruthy(x) == x # None /\ x[1] # 0
StrTruthy(x) == x # None /\ x[1] # <<>>
DateTruthy(x) == x # None /\ x[1].text # ""

Lower(c) ==
    CASE c = "B" -> "b" [] c = "X" -> "x" [] c = "K" -> "k" [] c = "Q" -> "q"
      [] c = "R" -> "r" [] c = "O" -> "o" [] c = "F" -> "f" [] OTHER -> c

LowerStr(str) == [i \in 1..Len(str) |-> Lower(str[i])]

Contains(hay, needle) ==
    \E k \in 0..(Len(hay) - Len(needle)) :
        SubSeq(hay, k + 1, k + Len(needle)) = needle

\* column.ilike("%pattern%"): NULL columns never match
Ilike(column, pattern) ==
    /\ column # None
    /\ Contains(LowerStr(column[1]), LowerStr(pattern))

\* the query parameters the model draws
BoroughChoices == {None, Some(<<>>), Some(<<"b", "x">>)}
OffenseChoices == {None, Some(<<"R", "O">>)}
StartDateChoices == {None, Some([text |-> "garbage", t |-> 0]), Some(IsoFormat(8))}
EndDateChoices == {None, Some(IsoFormat(10))}
MinBoundChoices == {None, Some(0), Some(-1)}
MaxBoundChoices == {None, Some(1)}
SkipChoices == 0..MaxSkip
LimitChoices == {MinLimit, MinLimit + 1}

CrimesQueries ==
    [skip : SkipChoices, limit : LimitChoices,
     borough : BoroughChoices, offense : OffenseChoices,
     start_date : StartDateChoices, end_date : EndDateChoices,
     lat_min : MinBoundChoices, lat_max : MaxBoundChoices,
     lng_min : MinBoundChoices, lng_max : MaxBoundChoices]

\* main.py 115-121: a date parameter that is given and does not parse
DateParseFails(q) ==
    \/ DateTruthy(q.start_date) /\ FromIsoFormat(q.start_date[1]) = None
    \/ DateTruthy(q.end_date) /\ FromIsoFormat(q.end_date[1]) = None

\* main.py 109-121: the borough, offense and date filters
TextAndDateFilters(row, q) ==
    /\ StrTruthy(q.borough) => Ilike(row.borough, q.borough[1])
    /\ StrTruthy(q.offense) => Ilike(row.offense_description, q.offense[1])
    /\ DateTruthy(q.start_date) =>
          /\ row.occurrence_date # None
          /\ row.occurrence_date[1] >= FromIsoFormat(q.start_date[1])[1]
    /\ DateTruthy(q.end_date) =>
          /\ row.occurrence_date # None
          /\ row.occurrence_date[1] <= FromIsoFormat(q.end_date[1])[1]

\* main.py 124: all([lat_min, lat_max, lng_min, lng_max])
BoxGiven(q) ==
    /\ NumTruthy(q.lat_min)
    /\ NumTruthy(q.lat_max)
    /\ NumTruthy(q.lng_min)
    /\ NumTruthy(q.lng_max)

\* main.py 125-132: the bounding box filter; NULL coordinates never match
InBox(row, q) ==
    /\ row.latitude # None
    /\ row.longitude # None
    /\ row.latitude[1] >= q.lat_min[1]
    /\ row.latitude[1] <= q.lat_max[1]
    /\ row.longitude[1] >= q.lng_min[1]
    /\ row.longitude[1] <= q.lng_max[1]

\* main.py 106-132: the rows the query selects
CrimesMatching(table, q) ==
    {row \in table : /\ TextAndDateFilters(row, q)
                     /\ BoxGiven(q) => InBox(row, q)}

\* the rows of a set as a sequence in id order (the query has no ORDER BY;
\* a table scan returns rows by primary key)
RECURSIVE InIdOrder(_)
InIdOrder(rows) ==
    IF rows = {} THEN <<>>
    ELSE LET first == CHOOSE r \in rows : \A o \in rows : r.id <= o.id
         IN <<first>> \o InIdOrder(rows \ {first})

\* main.py 138: .offset(skip).limit(limit).all()
Page(rows, skip, limit) ==
    LET all == InIdOrder(rows)
        last == IF skip + limit < Len(all) THEN skip + limit ELSE Len(all)
    IN SubSeq(all, skip + 1, last)

\* the page count rounded down
PagesFloor(total, limit) == total \div limit

\* main.py 146: (total + limit - 1) // limit
Pages(total, limit) == (total + limit - 1) \div limit

\* main.py 142-147: the "pagination" object
PaginationInfo(total, skip, limit) ==
    [total |-> total, skip |-> skip, limit |-> limit, pages |-> Pages(total, limit)]

\* an exception answered with an empty result
ServerErrorAsEmptyResult(endpoint, q, detail) ==
    [endpoint |-> endpoint, query |-> q, status |-> 200, data |-> <<>>]

\* the HTTPException(status_code=500) of the except blocks (main.py 162-164,
\* 217-219, 249-251, 286-288, 329-331)
ServerError(endpoint, q, detail) ==
    [endpoint |-> endpoint, query |-> q, status |-> 500, detail |-> detail]

\* main.py 134-160: the answer of get_crimes once the filters are built
CrimesAnswer(table, q) ==
    LET matching == CrimesMatching(table, q)
        crimes == Page(matching, q.skip, q.limit)
    IN [endpoint |-> "get_crimes", query |-> q, status |-> 200,
        data |-> [i \in 1..Len(crimes) |-> to_dict(crimes[i])],
        pagination |-> PaginationInfo(Cardinality(matching), q.skip, q.limit),
        filters |-> [borough |-> q.borough, offense |-> q.offense,
                     start_date |-> q.start_date, end_date |-> q.end_date,
                     bounding_box |->
                         IF BoxGiven(q)
                         THEN Some([lat_min |-> q.lat_min, lat_max |-> q.lat_max,
                                    lng_min |-> q.lng_min, lng_max |-> q.lng_max])
                         ELSE None]]

\* main.py 87-164: get_crimes
GetCrimes ==
    /\ UNCHANGED other_than_api
    /\ resp = NoResponse
    /\ \E q \in CrimesQueries :
        \/ /\ ~DateParseFails(q)
           /\ resp' = CrimesAnswer(crime_events, q)
           /\ UNCHANGED api_faults
        \/ /\ DateParseFails(q)
           /\ resp' = ServerError("get_crimes", q, "Internal server error")
           /\ UNCHANGED api_faults
        \/ /\ api_faults < MaxDbFaults
           /\ api_faults' = api_faults + 1
           /\ resp' = ServerError("get_crimes", q, "Internal server error")
    /\ UNCHANGED <<req, open_sessions, sessions_created, clock>>

\* pagination of a result of any size
Paginate ==
    /\ UNCHANGED other_than_api
    /\ resp = NoResponse
    /\ \E total \in 0..MaxTotal, limit \in MinLimit..MaxLimit :
        resp' = [endpoint |-> "pagination", status |-> 200,
                 pagination |-> PaginationInfo(total, 0, limit)]
    /\ UNCHANGED <<req, open_sessions, sessions_created, api_faults, clock>>

(***************************************************************************)
(* GET /stats/timeline                                                     *)
(***************************************************************************)
DaysChoices == {MinDays, MinDays + 1, MaxDays}

\* a set of dates as a sequence in ascending order (ORDER BY date)
RECURSIVE Ascending(_)
Ascending(dates) ==
    IF dates = {} THEN <<>>
    ELSE LET first == CHOOSE d \in dates : \A o \in dates : d <= o
         IN <<first>> \o Ascending(dates \ {first})

\* main.py 267-268: the filter of the timeline query
InTimelineWindow(row, start_date) ==
    /\ row.occurrence_date # None
    /\ row.occurrence_date[1] >= start_date

\* str(date): the text that denotes the date
DateStr(d) == [text |-> "date", d |-> d]

\* main.py 261-284: the answer of get_crime_timeline
TimelineAnswer(table, days, now) ==
    LET start_date == now - Days(days)
        rows == {row \in table : InTimelineWindow(row, start_date)}
        dates == Ascending({DateOf(row.occurrence_date[1]) : row \in rows})
    IN [endpoint |-> "timeline", query |-> [days |-> days], status |-> 200,
        timeline |->
            [i \in 1..Len(dates) |->
                [date |-> DateStr(dates[i]),
                 count |-> Cardinality({row \in rows :
                              DateOf(row.occurrence_date[1]) = dates[i]})]],
        period_days |-> days,
        start_date |-> IsoFormat(start_date),
        end_date |-> IsoFormat(now)]

\* main.py 254-288: get_crime_timeline
GetCrimeTimeline ==
    /\ UNCHANGED other_than_api
    /\ resp = NoResponse
    /\ \E days \in DaysChoices :
        \/ /\ resp' = TimelineAnswer(crime_events, days, clock)
           /\ UNCHANGED api_faults
        \/ /\ api_faults < MaxDbFaults
           /\ api_faults' = api_faults + 1
           /\ resp' = ServerError("timeline", [days |-> days],
                                  "Error generating timeline")
    /\ UNCHANGED <<req, open_sessions, sessions_created, clock>>

(***************************************************************************)
(* GET /stats/summary and GET /stats/boroughs.  A GROUP BY without ORDER BY *)
(* returns its groups in no fixed order: a breakdown is the set of its     *)
(* entries, one per group key.                                             *)
(***************************************************************************)
\* main.py 186-189: GROUP BY column with count(id), the entries whose key is
\* truthy (main.py 207, 211)
Breakdown(table, column, label) ==
    {[key |-> label, value |-> k,
      count |-> Cardinality({row \in table : row[column] = k})] :
        k \in {row[column] : row \in {r \in table : StrTruthy(r[column])}}}

\* main.py 198-201: the rows of the last RecentDays days
RecentCrimes(table, now) ==
    {row \in table : /\ row.occurrence_date # None
                     /\ row.occurrence_date[1] >= now - Days(RecentDays)}

\* main.py 182-214: the answer of get_crime_summary
SummaryAnswer(table, now) ==
    [endpoint |-> "summary", query |-> None, status |-> 200,
     total_crimes |-> Cardinality(table),
     recent_crimes_30d |-> Cardinality(RecentCrimes(table, now)),
     borough_breakdown |-> Breakdown(table, "borough", "borough"),
     offense_breakdown |-> Breakdown(table, "law_category", "category"),
     last_updated |-> IsoFormat(now)]

\* main.py 179-219: get_crime_summary
GetCrimeSummary ==
    /\ UNCHANGED other_than_api
    /\ resp = NoResponse
    /\ \/ /\ resp' = SummaryAnswer(crime_events, clock)
          /\ UNCHANGED api_faults
       \/ /\ api_faults < MaxDbFaults
          /\ api_faults' = api_faults + 1
          /\ resp' = ServerError("summary", None, "Error generating statistics")
    /\ UNCHANGED <<req, open_sessions, sessions_created, clock>>

RECURSIVE SumOf(_)
SumOf(numbers) ==
    IF numbers = <<>> THEN 0 ELSE Head(numbers) + SumOf(Tail(numbers))

\* func.avg(column) of a group: NULLs are skipped, no value gives NULL; the
\* average is the fraction sum / n
Avg(rows, column) ==
    LET given == InIdOrder({row \in rows : row[column] # None})
    IN IF given = <<>> THEN None
       ELSE Some([sum |-> SumOf([i \in 1..Len(given) |-> given[i][column][1]]),
                  n |-> Len(given)])

\* main.py 238-239: float(avg) if avg else None
CenterCoordinate(avg) ==
    IF avg # None /\ avg[1].sum # 0 THEN avg ELSE None

\* main.py 225-247: the answer of get_borough_stats
BoroughStatsAnswer(table) ==
    [endpoint |-> "borough_stats", query |-> None, status |-> 200,
     boroughs |->
        {LET group == {row \in table : row.borough = k} IN
         [name |-> k,
          total_crimes |-> Cardinality(group),
          unique_offenses |->
              Cardinality({row.offense_description : row \in group} \ {None}),
          center_coordinates |->
              [lat |-> CenterCoordinate(Avg(group, "latitude")),
               lng |-> CenterCoordinate(Avg(group, "longitude"))]] :
            k \in {row.borough : row \in {r \in table : StrTruthy(r.borough)}}}]

\* main.py 222-251: get_borough_stats
GetBoroughStats ==
    /\ UNCHANGED other_than_api
    /\ resp = NoResponse
    /\ \/ /\ resp' = BoroughStatsAnswer(crime_events)
          /\ UNCHANGED api_faults
       \/ /\ api_faults < MaxDbFaults
          /\ api_faults' = api_faults + 1
          /\ resp' = ServerError("borough_stats", None,
                                 "Error generating borough statistics")
    /\ UNCHANGED <<req, open_sessions, sessions_created, clock>>

(***************************************************************************)
(* GET /geo/heatmap                                                        *)
(***************************************************************************)
\* main.py 296-309: the rows the heatmap query selects
HeatmapCoordinates(table, borough) ==
    {row \in table : /\ row.latitude # None
                     /\ row.longitude # None
                     /\ StrTruthy(borough) => Ilike(row.borough, borough[1])}

\* main.py 315-319: the point of a row
HeatmapPoint(coord) ==
    [lat |-> coord.latitude[1], lng |-> coord.longitude[1],
     offense |-> coord.offense_description]

\* main.py 311-327: the answer of get_heatmap_data
HeatmapAnswer(table, borough) ==
    LET coordinates == InIdOrder(HeatmapCoordinates(table, borough))
        kept == SelectSeq(coordinates,
                          LAMBDA coord : /\ NumTruthy(coord.latitude)
                                         /\ NumTruthy(coord.longitude))
    IN [endpoint |-> "heatmap", query |-> [borough |-> borough], status |-> 200,
        heatmap_points |-> [i \in 1..Len(kept) |-> HeatmapPoint(kept[i])],
        total_points |-> Len(coordinates),
        filter |-> [borough |-> borough]]

\* main.py 291-331: get_heatmap_data
GetHeatmapData ==
    /\ UNCHANGED other_than_api
    /\ resp = NoResponse
    /\ \E borough \in BoroughChoices :
        \/ /\ resp' = HeatmapAnswer(crime_events, borough)
           /\ UNCHANGED api_faults
        \/ /\ api_faults < MaxDbFaults
           /\ api_faults' = api_faults + 1
           /\ resp' = ServerError("heatmap", [borough |-> borough],
                                  "Error generating heatmap data")
    /\ UNCHANGED <<req, open_sessions, sessions_created, clock>>

(***************************************************************************)
(* GET /health                                                             *)
(***************************************************************************)
\* main.py 67-79: the answer of health_check (db_info and the api block are
\* fixed texts)
HealthAnswer(table, now) ==
    [endpoint |-> "health", query |-> None, status |-> 200,
     health |-> "healthy",
     timestamp |-> IsoFormat(now),
     database |-> [connected |-> TRUE, crime_records |-> Cardinality(table)]]

\* main.py 80-82
ServiceUnhealthy ==
    [endpoint |-> "health", query |-> None, status |-> 503,
     detail |-> "Service unhealthy"]

\* main.py 60-83: health_check
HealthCheck ==
    /\ UNCHANGED other_than_api
    /\ resp = NoResponse
    /\ \/ /\ resp' = HealthAnswer(crime_events, clock)
          /\ UNCHANGED api_faults
       \/ /\ api_faults < MaxDbFaults
          /\ api_faults' = api_faults + 1
          /\ resp' = ServiceUnhealthy
    /\ UNCHANGED <<req, open_sessions, sessions_created, clock>>

(***************************************************************************)
(* A request that reads crime_events while ingest_csv_data runs in another *)
(* process: its session sees the rows committed so far.                    *)
(***************************************************************************)
\* main.py 65 (health_check) and 134-138 (get_crimes): one read of the table
Observe ==
    /\ observed = None
    /\ observed' = Some([rows |-> crime_events, pc |-> pc])
    /\ UNCHANGED <<crime_events, ingest_vars, borough_vars, api_vars>>

(***************************************************************************)
(* Specifications.                                                         *)
(***************************************************************************)
\* no ingestion under way
IngestIdle ==
    /\ IngestInit
    /\ csv_file = "readable"

\* no seeding under way
BoroughIdle ==
    /\ BoroughInit
    /\ boroughs = {}

\* one run of ingest_csv_data
Init ==
    /\ crime_events \in PriorTables
    /\ IngestInit
    /\ BoroughIdle
    /\ ApiIdle

Next == ReadCsv \/ ClearTable \/ ProcessRow \/ FinalCommit

Spec == Init /\ [][Next]_vars

\* calls of initialize_boroughs in a row
InitBoroughs ==
    /\ crime_events = {}
    /\ IngestIdle
    /\ BoroughInit
    /\ ApiIdle

NextBoroughs == SeedClear \/ SeedAdd \/ SeedCommit

SpecBoroughs == InitBoroughs /\ [][NextBoroughs]_vars

\* the tables of rows whose ids the requests can ask for, and one more row
SessionTables == {t \in ApiTables : \A row \in t : row.id <= MaxCrimeId + 1}

\* concurrent requests GET /crimes/{id}, each with its get_db session
InitSessions ==
    /\ crime_events \in SessionTables
    /\ IngestIdle
    /\ BoroughIdle
    /\ ApiIdle

NextSessions ==
    \E r \in Requests : GetDbOpen(r) \/ GetCrimeById(r) \/ GetDbClose(r)

SpecSessions == InitSessions /\ [][NextSessions]_vars

\* one request to a list or aggregate endpoint (the endpoints keep no state
\* between requests)
NextQuery ==
    \/ GetCrimes
    \/ GetCrimeTimeline
    \/ GetCrimeSummary
    \/ GetBoroughStats
    \/ GetHeatmapData
    \/ HealthCheck

InitQuery ==
    /\ crime_events \in ApiTables
    /\ IngestIdle
    /\ BoroughIdle
    /\ ApiInit

SpecQuery == InitQuery /\ [][NextQuery]_vars

\* a run of ingest_csv_data over a table that holds rows, and a request
\* reading the table at any point of the run
InitConcurrent ==
    /\ crime_events \in PriorTables \ {{}}
    /\ IngestIdle
    /\ BoroughIdle
    /\ ApiIdle

NextConcurrent == ReadCsv \/ ClearTable \/ ProcessRow \/ FinalCommit \/ Observe

SpecConcurrent == InitConcurrent /\ [][NextConcurrent]_vars

\* the pagination arithmetic over results of any size
NextPagination == Paginate

InitPagination ==
    /\ crime_events = {}
    /\ IngestIdle
    /\ BoroughIdle
    /\ ApiIdle

SpecPagination == InitPagination /\ [][NextPagination]_vars

(***************************************************************************)
(* The rows of the input, from the history of the run.                     *)
(***************************************************************************)
\* row i of the input, for a position already iterated
RowAt(i) ==
    IF \E r \in odd_rows : r.index = i
    THEN CHOOSE r \in odd_rows : r.index = i
    ELSE PlainRow(i)

\* the rows before position i that construct and carry complaint_number c
EarlierWith(c, i) ==
    {r \in odd_rows : r.index < i /\ r.constructs /\ r.complaint_number = c}
    \cup (IF c \in 1..(i - 1) /\ RowAt(c) = PlainRow(c) THEN {PlainRow(c)} ELSE {})

\* well-formed: CrimeEvent(...) can be built and no earlier such row carries
\* the same complaint_number
WellFormed(row) ==
    /\ row.constructs
    /\ EarlierWith(row.complaint_number, row.index) = {}

WellFormedRows ==
    {CrimeEventOf(RowAt(i)) : i \in {j \in 1..idx : WellFormed(RowAt(j))}}

SampleRows == {CrimeEventOf(PlainRow(i)) : i \in 1..SampleSize}

(***************************************************************************)
(* C1: after ingest_csv_data has run over a CSV of N well-formed and M     *)
(* malformed rows (no database error), crime_events holds exactly the N    *)
(* well-formed rows, failed_inserts is M and the table size is N, whatever *)
(* the table held before.                                                  *)
(***************************************************************************)
C1_TableIsWellFormedRows ==
    (pc = "done" /\ df # NoFrame /\ db_faults = 0) =>
        /\ crime_events = WellFormedRows
        /\ failed_inserts = idx - Cardinality(WellFormedRows)
        /\ Cardinality(crime_events) = Cardinality(WellFormedRows)

(***************************************************************************)
(* C2: when a row fails in the loop, the rows added before it in the same  *)
(* uncommitted batch stay in the session, and the loop goes on with the    *)
(* next row.                                                               *)
(***************************************************************************)
C2_OnlyFailedRowRolledBack ==
    [][failed_inserts' = failed_inserts + 1 =>
          /\ pending \subseteq pending'
          /\ pc' = "loop"
          /\ idx' = idx + 1]_vars

(***************************************************************************)
(* C4 (as stated): a missing or unreadable CSV is logged and replaced by   *)
(* the generated sample data, which is then loaded.                        *)
(***************************************************************************)
C4_MissingOrCorruptFallsBack ==
    (pc # "read_csv" /\ csv_file \in {"missing", "corrupt"}) =>
        /\ log \cap {"CSV file not found", "Error reading CSV file"} # {}
        /\ df = SampleShape
        /\ ~(pc = "done" /\ idx = 0)

(***************************************************************************)
(* C4 (amended): a missing CSV is logged and replaced by the generated     *)
(* sample data, which is then loaded (all SampleSize rows when no database *)
(* operation raises); a CSV that exists and cannot be read is logged and   *)
(* the function returns False, with no fallback and the table untouched.   *)
(***************************************************************************)
C4_MissingFallsBackCorruptReturnsFalse ==
    pc # "read_csv" =>
        /\ csv_file = "missing" =>
              /\ "CSV file not found" \in log
              /\ df = SampleShape
              /\ ~(pc = "done" /\ idx = 0 /\ db_faults = 0)
              /\ (pc = "done" /\ db_faults = 0) =>
                    (result = "True" /\ crime_events = SampleRows)
        /\ csv_file = "corrupt" =>
              /\ "Error reading CSV file" \in log
              /\ df = NoFrame
              /\ pc = "done"
              /\ result = "False"
              /\ crime_events = prior

C4_Witness ==
    /\ csv_file = "missing"
    /\ pc = "done"
    /\ result = "True"
    /\ Cardinality(crime_events) = SampleSize

(***************************************************************************)
(* C5: a database operation raising at any point of the run (the delete, a *)
(* periodic commit, the final commit) rolls back the in-flight batch,      *)
(* ends the run and makes the function return False.                       *)
(***************************************************************************)
C5_DbErrorAborts ==
    db_faults > 0 => (pc = "done" /\ result = "False" /\ pending = {})

(***************************************************************************)
(* C6: after any number of calls of initialize_boroughs in a row that ran  *)
(* without a database error, from any prior contents, the boroughs table   *)
(* holds exactly 5 rows, one per borough name, with the fields of          *)
(* boroughs_data, the same as after the first call.                        *)
(***************************************************************************)
SeedRows == {boroughs_data[k] : k \in 1..Len(boroughs_data)}

C6_SeedingIdempotent ==
    (b_pc = "idle" /\ b_runs >= 1 /\ b_faults = 0) =>
        /\ Cardinality(boroughs) = 5
        /\ Cardinality(Names(boroughs)) = 5
        /\ boroughs = SeedRows
        /\ boroughs = b_first

C6_Witness ==
    /\ b_pc = "idle"
    /\ b_runs = 2
    /\ b_faults = 0
    /\ b_first # {}
    /\ boroughs = b_first

(***************************************************************************)
(* C7: the session get_db hands to a request is closed on every exit path  *)
(* of the request (return, HTTPException, any other exception); no two     *)
(* requests ever use the same session; the open sessions are exactly those *)
(* of the requests under way, so none is open once all have completed.     *)
(***************************************************************************)
C7_SessionClosedOnEveryExit ==
    /\ \A r \in Requests :
          req[r].pc = "done" => req[r].session \notin open_sessions
    /\ \A r1, r2 \in Requests :
          (r1 # r2 /\ req[r1].pc # "new" /\ req[r2].pc # "new") =>
              req[r1].session # req[r2].session
    /\ open_sessions =
          {req[r].session : r \in {q \in Requests : req[q].pc \in {"handler", "exit"}}}
    /\ (\A r \in Requests : req[r].pc = "done") => open_sessions = {}

C7_Witness ==
    /\ \A r \in Requests : req[r].pc = "done"
    /\ \E r \in Requests : req[r].exit = "http_exception"
    /\ \E r \in Requests : req[r].exit = "exception"
    /\ sessions_created = MaxRequests

(***************************************************************************)
(* C10: GET /crimes/{id} whose query ran answers 404 "Crime not found"     *)
(* when no row has that id, never a server error, and 200 with the         *)
(* to_dict of the row when one has.                                        *)
(***************************************************************************)
C10_NotFoundIs404 ==
    \A r \in Requests :
        (req[r].pc \in {"exit", "done"} /\ ~req[r].query_raised) =>
            LET rows == {row \in crime_events : row.id = req[r].crime_id} IN
            /\ rows = {} =>
                  /\ req[r].status = 404
                  /\ req[r].exit = "http_exception"
            /\ rows # {} =>
                  /\ req[r].status = 200
                  /\ \E row \in rows :
                        /\ req[r].body.id = req[r].crime_id
                        /\ req[r].body.latitude = row.latitude
                        /\ req[r].body.longitude = row.longitude
                        /\ req[r].body.borough = row.borough
                        /\ req[r].body.occurrence_date =
                              (IF row.occurrence_date = None THEN None
                               ELSE Some(IsoFormat(row.occurrence_date[1])))

C10_Witness ==
    /\ \E r \in Requests :
          /\ req[r].pc = "done"
          /\ req[r].status = 404
          /\ crime_events # {}
    /\ \E r \in Requests :
          /\ req[r].pc = "done"
          /\ req[r].status = 200

(***************************************************************************)
(* C3: when GET /crimes is given all four bounds (any numbers, 0 too),     *)
(* every record returned lies in the box; given fewer than four, the box   *)
(* filter is not applied: the total is that of the other filters alone.    *)
(***************************************************************************)
AllBoundsSupplied(q) ==
    /\ q.lat_min # None
    /\ q.lat_max # None
    /\ q.lng_min # None
    /\ q.lng_max # None

C3_BoundingBoxFilter ==
    (resp.endpoint = "get_crimes" /\ resp.status = 200) =>
        LET q == resp.query IN
        /\ AllBoundsSupplied(q) =>
              \A i \in 1..Len(resp.data) :
                  /\ resp.data[i].latitude # None
                  /\ resp.data[i].longitude # None
                  /\ q.lat_min[1] <= resp.data[i].latitude[1]
                  /\ resp.data[i].latitude[1] <= q.lat_max[1]
                  /\ q.lng_min[1] <= resp.data[i].longitude[1]
                  /\ resp.data[i].longitude[1] <= q.lng_max[1]
        /\ ~AllBoundsSupplied(q) =>
              resp.pagination.total =
                  Cardinality({row \in crime_events : TextAndDateFilters(row, q)})

(***************************************************************************)
(* C8: GET /stats/timeline with days=D returns only dates d with           *)
(* now - D days <= d <= now, also when the table holds occurrences in the  *)
(* future, in strictly ascending order, no date twice.                     *)
(***************************************************************************)
C8_TimelineWithinWindow ==
    (resp.endpoint = "timeline" /\ resp.status = 200) =>
        /\ \A i \in 1..Len(resp.timeline) :
              /\ DateOf(clock - Days(resp.period_days)) <= resp.timeline[i].date.d
              /\ resp.timeline[i].date.d <= DateOf(clock)
        /\ \A i, j \in 1..Len(resp.timeline) :
              i < j => resp.timeline[i].date.d < resp.timeline[j].date.d

(***************************************************************************)
(* C9: the page count is ceil(total / limit): the least p with             *)
(* p * limit >= total; 0 when total is 0, total / limit when limit divides *)
(* total.                                                                  *)
(***************************************************************************)
C9_PagesIsCeiling ==
    (resp.endpoint \in {"pagination", "get_crimes"} /\ resp.status = 200) =>
        LET total == resp.pagination.total
            limit == resp.pagination.limit
            pages == resp.pagination.pages
        IN /\ pages >= 0
           /\ pages * limit >= total
           /\ (pages - 1) * limit < total
           /\ total = 0 => pages = 0
           /\ total % limit = 0 => pages * limit = total

C9_Witness ==
    /\ resp.endpoint = "pagination"
    /\ resp.pagination.total = MaxTotal
    /\ resp.pagination.limit > 1
    /\ resp.pagination.total % resp.pagination.limit # 0
    /\ resp.pagination.pages > 1

(***************************************************************************)
(* C11: in GET /crimes, /stats/summary, /stats/boroughs, /stats/timeline   *)
(* and /geo/heatmap an exception raised while the query is built or        *)
(* executed (a start_date or end_date that does not parse included) is     *)
(* answered with status 500 and a detail text, with none of the data of    *)
(* the endpoint, and the failing query is not run again; in GET /health a  *)
(* failing count query is answered with status 503.                        *)
(***************************************************************************)
ListEndpoints == {"get_crimes", "summary", "borough_stats", "timeline", "heatmap"}

\* the keys under which the endpoints return data
DataKeys == {"data", "pagination", "filters", "total_crimes",
             "recent_crimes_30d", "borough_breakdown", "offense_breakdown",
             "last_updated", "boroughs", "timeline", "period_days",
             "start_date", "end_date", "heatmap_points", "total_points",
             "filter", "health", "timestamp", "database"}

\* the request answered in resp met an exception
RequestRaised ==
    \/ api_faults > 0
    \/ resp.endpoint = "get_crimes" /\ DateParseFails(resp.query)

C11_ExceptionsAnswered ==
    /\ api_faults <= 1
    /\ (resp.endpoint \in ListEndpoints /\ RequestRaised) =>
          /\ resp.status = 500
          /\ DOMAIN resp \cap DataKeys = {}
          /\ "detail" \in DOMAIN resp
    /\ (resp.endpoint = "health" /\ RequestRaised) =>
          /\ resp.status = 503
          /\ DOMAIN resp \cap DataKeys = {}

\* a request of GET /crimes whose start_date does not parse, the database
\* in order, answered with 500
C11_Witness ==
    /\ resp.endpoint = "get_crimes"
    /\ DateParseFails(resp.query)
    /\ api_faults = 0
    /\ crime_events # {}
    /\ resp.status = 500

(***************************************************************************)
(* C12: heatmap_points of GET /geo/heatmap holds exactly one (lat, lng,    *)
(* offense) triple for every row whose latitude and longitude are both     *)
(* non-null and whose borough contains the borough filter when one is      *)
(* given, rows with a latitude or longitude of 0 included, and none for a  *)
(* row with a null coordinate.                                             *)
(***************************************************************************)
C12_HeatmapPointPerRow ==
    (resp.endpoint = "heatmap" /\ resp.status = 200) =>
        LET expected == InIdOrder(
                {row \in crime_events :
                    /\ row.latitude # None
                    /\ row.longitude # None
                    /\ StrTruthy(resp.query.borough) =>
                          Ilike(row.borough, resp.query.borough[1])})
        IN resp.heatmap_points =
              [i \in 1..Len(expected) |->
                  [lat |-> expected[i].latitude[1],
                   lng |-> expected[i].longitude[1],
                   offense |-> expected[i].offense_description]]

(***************************************************************************)
(* C15: for GET /crimes with any skip >= 0 and limit in 1..1000, total is  *)
(* the number of records matching the filters of the request and is the    *)
(* same for every skip and limit, and data holds                           *)
(* min(limit, max(0, total - skip)) records: none when skip >= total.      *)
(***************************************************************************)
\* the records matching the filters of the request: the text and date
\* filters, and the box when all four bounds are supplied
MatchingTheFilters(table, q) ==
    {row \in table : /\ TextAndDateFilters(row, q)
                     /\ AllBoundsSupplied(q) => InBox(row, q)}

Min(a, b) == IF a <= b THEN a ELSE b
Max(a, b) == IF a >= b THEN a ELSE b

\* the part of C15 about skip and limit
PageSizeFollowsTotal ==
    (resp.endpoint = "get_crimes" /\ resp.status = 200) =>
        LET q == resp.query
            total == resp.pagination.total
        IN /\ \A s \in SkipChoices, l \in LimitChoices :
                 CrimesAnswer(crime_events,
                              [q EXCEPT !.skip = s, !.limit = l]).pagination.total
                    = total
           /\ Len(resp.data) = Min(q.limit, Max(0, total - q.skip))
           /\ q.skip >= total => resp.data = <<>>

C15_TotalAndPageSize ==
    /\ PageSizeFollowsTotal
    /\ (resp.endpoint = "get_crimes" /\ resp.status = 200) =>
          resp.pagination.total =
              Cardinality(MatchingTheFilters(crime_events, resp.query))

(***************************************************************************)
(* C14: during ingest_csv_data the rows added to the session and not yet   *)
(* committed never number more than 100, whatever rows succeed or fail: a  *)
(* commit is issued each time the count of successful rows reaches a       *)
(* multiple of 100 (and the rows pending between two steps are fewer than  *)
(* 100, at most the successes counted since the last multiple).            *)
(***************************************************************************)
BatchEvents == {"batch_committed", "batch_rejected", "batch_dberror"}

C14_PendingAtMostBatch ==
    /\ Cardinality(pending) <= BatchSize
    /\ Cardinality(pending) <= successful_inserts % BatchSize
    /\ last_event = "row_added" => successful_inserts % BatchSize # 0
    /\ last_event \in BatchEvents =>
          /\ successful_inserts % BatchSize = 0
          /\ pending = {}

\* a full batch committed after a row failed
C14_Witness ==
    /\ last_event = "batch_committed"
    /\ failed_inserts > 0
    /\ Cardinality(crime_events) = BatchSize

(***************************************************************************)
(* C16: in ingest_csv_data every processed row is counted exactly once, as *)
(* successful or as failed: through the loop and at its end                *)
(* successful_inserts + failed_inserts is the number of rows processed,    *)
(* and when the run has committed, successful_inserts is the number of     *)
(* rows committed to the table (also when a 100-row commit raised).        *)
(***************************************************************************)
C16_EveryRowCountedOnce ==
    /\ pc = "loop" => successful_inserts + failed_inserts = idx
    /\ result = "True" =>
          /\ successful_inserts + failed_inserts = Len_df
          /\ successful_inserts = Cardinality(crime_events)

(***************************************************************************)
(* C17: when ingest_csv_data returns False the crime_events table holds    *)
(* what it held before the call: a failed run never leaves the table       *)
(* emptied or partly loaded.                                               *)
(***************************************************************************)
C17_FailedRunLeavesTable ==
    result = "False" => crime_events = prior

(***************************************************************************)
(* C17, amended: when ingest_csv_data returns False because the CSV could  *)
(* not be read or because the initial delete or its commit raised, the     *)
(* table holds what it held before the call; when it returns False because *)
(* the final commit raised, the rows of before the call are gone and the   *)
(* table holds only rows of the input committed by the 100-row commits     *)
(* (none when fewer than 100 rows were added), the uncommitted rows being  *)
(* rolled back.                                                            *)
(***************************************************************************)
FinalCommitFailed == last_event \in {"final_rejected", "final_dberror"}

C17_FailedRunKeepsOnlyCommitted ==
    result = "False" =>
        /\ last_event \in {"read_csv", "clear_failed"} \/ FinalCommitFailed
        /\ last_event \in {"read_csv", "clear_failed"} => crime_events = prior
        /\ FinalCommitFailed =>
              /\ crime_events \cap prior = {}
              /\ pending = {}
              /\ crime_events \subseteq
                    {CrimeEventOf(RowAt(i)) :
                        i \in {j \in 1..idx : RowAt(j).constructs}}
              /\ successful_inserts < BatchSize => crime_events = {}

\* a run over a table that held rows, failed at the final commit after a
\* batch was committed
C17_Witness ==
    /\ result = "False"
    /\ FinalCommitFailed
    /\ prior # {}
    /\ crime_events # {}

(***************************************************************************)
(* C18: initialize_boroughs is all-or-nothing: after it returns, whether   *)
(* or not an insert or commit failed, the Borough table holds exactly the  *)
(* five seed rows or exactly the rows it held before the call, never an    *)
(* empty or partial set caused by the call.                                *)
(***************************************************************************)
SeedReturned == b_pc = "idle" /\ b_runs > 0

C18_SeedAllOrNothing ==
    SeedReturned => (boroughs = SeedRows \/ boroughs = b_prior)

(***************************************************************************)
(* C18, amended: after initialize_boroughs returns, the Borough table      *)
(* holds exactly the five seed rows, or exactly the rows it held before    *)
(* the call (the delete or its commit failed), or no row at all (the       *)
(* delete was committed and the commit of the inserts failed); it never    *)
(* holds a part of the seed rows or a part of the earlier rows.            *)
(***************************************************************************)
C18_SeedRowsPriorOrEmpty ==
    SeedReturned =>
        /\ boroughs \in {SeedRows, b_prior, {}}
        /\ b_pending = {}
        /\ (boroughs = {} /\ b_prior # {}) => b_faults > 0

\* a call on a table that held rows returned leaving the table empty
C18_Witness ==
    /\ SeedReturned
    /\ b_faults > 0
    /\ b_prior # {}
    /\ boroughs = {}

(***************************************************************************)
(* C13: a request that reads crime_events while ingest_csv_data runs on a  *)
(* table that held rows can see the table empty or holding a strict subset *)
(* of the rows it holds at the end: the delete and each batch of inserts   *)
(* are separate committed transactions.  What a reader sees before the     *)
(* delete is the rows of before the call; what it sees once the delete is  *)
(* committed holds none of those rows and only rows committed so far, a    *)
(* subset of the table at every later point of the run.                    *)
(***************************************************************************)
C13_ReaderSeesCommittedSteps ==
    observed # None =>
        LET seen == observed[1] IN
        /\ seen.pc \in {"read_csv", "clear"} => seen.rows = prior
        /\ seen.pc = "loop" =>
              /\ prior # {}
              /\ seen.rows \cap prior = {}
              /\ seen.rows \subseteq crime_events

\* a reader saw some rows of the input, fewer than the run then left in the
\* table
C13_Witness ==
    /\ observed # None
    /\ observed[1].pc = "loop"
    /\ observed[1].rows # {}
    /\ result = "True"
    /\ observed[1].rows # crime_events
    /\ observed[1].rows \subseteq crime_events

\* a reader saw the table empty in a run that left rows in it
C13_WitnessEmpty ==
    /\ observed # None
    /\ observed[1].pc = "loop"
    /\ observed[1].rows = {}
    /\ prior # {}
    /\ result = "True"
    /\ crime_events # {}

=============================================================================
